---- MODULE Spec2Model ----
(***************************************************************************)
(* The Scubapro G2 backend of libdivecomputer (src/src/scubapro_g2.c):     *)
(* the framed transfer engine (scubapro_g2_transfer, receive_data), the    *)
(* session operations (set_fingerprint, dump, foreach) and the dive        *)
(* extraction scan (scubapro_g2_extract_dives).                            *)
(*                                                                         *)
(* A C `unsigned int` is 32 bits wide.  It is kept as a pair of 16-bit     *)
(* limbs [hi, lo] so that sums wrap modulo 2^32 exactly as in the code.    *)
(* A C `int` (always in -2^31 .. 2^31-1) is a plain integer.               *)
(***************************************************************************)
EXTENDS Integers, Sequences, FiniteSets, TLC

VARIABLES
    pc,         \* control position of the call in progress
    caller,     \* entry point being executed: "none", "transfer", "set_fingerprint", "dump", "foreach", "extract"
    timestamp,  \* device->timestamp (u32)
    devtime,    \* device->devtime (u32)
    systime,    \* device->systime
    fparg,      \* set_fingerprint: the data[] of the last call
    lastfp,     \* set_fingerprint: the data[] of the last call that succeeded
    ndumps,     \* number of dumps started in this session
    stage,      \* dump: index 1..5 of the exchange in progress, 0 outside
    model,      \* dump: model[1]
    serial,     \* dump: serial[4]
    command,    \* transfer: the command bytes
    asize,      \* transfer: the answer size (u32)
    frameEnd,   \* transfer: number of bytes of buf[] written while framing
    sent,       \* packets handed to dc_usbhid_write during the call in progress
    io,         \* transport calls ("w"/"r") of the transfer or bulk read in progress
    rcaller,    \* who called receive_data: "transfer" or "dump"
    rsize,      \* receive_data: size (int)
    dst,        \* receive_data: bytes copied to the destination so far, in order
    cap,        \* receive_data: capacity of the destination (u32)
    overrun,    \* receive_data: a memcpy went past the destination or the packet
    rlog,       \* receive_data: complete packets received (indices in the packet table)
    rret,       \* receive_data: return value
    tstatus,    \* scubapro_g2_transfer: return status
    rstatus,    \* return status of the entry point
    length,     \* dump: negotiated length (u32)
    total,      \* dump: handshake total (u32)
    bufsize,    \* dump: dc_buffer_get_size (buffer) (u32)
    progress,   \* dump: dc_event_progress_t
    events,     \* dump: events emitted, in order
    xlog,       \* dump: the status each exchange returned, in order
    data,       \* extract: the bytes scanned
    size,       \* extract: number of bytes
    previous,   \* extract: previous
    current,    \* extract: current
    callback,   \* extract: the callback is not NULL
    markers,    \* extract: start markers found, in order
    yielded,    \* extract: callback invocations, in order
    oobread,    \* extract: the scan read a byte at an index >= size
    dumprc,     \* foreach: the status its dump returned, "none" before that
    iterations  \* extract: iterations of the scan loop begun so far

vars == <<pc, caller, timestamp, devtime, systime, fparg, lastfp, ndumps, stage, model, serial, command, asize, frameEnd,
          sent, io, rcaller, rsize, dst, cap, overrun, rlog, rret, tstatus, rstatus,
          length, total, bufsize, progress, events, xlog, data, size, previous, current,
          callback, markers, yielded, oobread, dumprc, iterations>>

xferVars == <<command, asize, frameEnd, sent, io, rcaller, rsize, dst, cap, overrun,
              rlog, rret, tstatus>>
devVars == <<timestamp, devtime, systime, fparg, lastfp, ndumps>>
dumpVars == <<stage, model, serial, length, total, bufsize, progress, events, xlog>>
extVars == <<data, size, previous, current, callback, markers, yielded, oobread, dumprc,
            iterations>>

-----------------------------------------------------------------------------
(* Bounds of the exploration.                                              *)

\* transport reads explored per receive_data call
MaxReads == 3
\* largest small answer size of a direct transfer
MaxAnswer == 3
\* command sizes explored above PACKET_SIZE
MaxOver == 1

-----------------------------------------------------------------------------
(* 32-bit unsigned arithmetic.                                             *)

W16 == 2^16
W8 == 2^8

U32(hi, lo) == [hi |-> hi, lo |-> lo]

\* the u32 of a natural number below 2^31
FromNat(n) == [hi |-> n \div W16, lo |-> n % W16]

Zero32 == U32(0, 0)

Add32(a, b) ==
    LET l == a.lo + b.lo
        h == a.hi + b.hi + (l \div W16)
    IN  [hi |-> h % W16, lo |-> l % W16]

\* the exact sum a + b does not fit in 32 bits
Carry32(a, b) == a.hi + b.hi + ((a.lo + b.lo) \div W16) >= W16

Lt32(a, b) == a.hi < b.hi \/ (a.hi = b.hi /\ a.lo < b.lo)

Le32(a, b) == a = b \/ Lt32(a, b)

\* conversion unsigned int -> int, as every supported compiler does it
ToInt(a) == (IF a.hi >= W16 \div 2 THEN a.hi - W16 ELSE a.hi) * W16 + a.lo

Min(a, b) == IF a < b THEN a ELSE b

array_uint32_le(d) == [hi |-> d[3] + W8 * d[4], lo |-> d[1] + W8 * d[2]]

\* the four bytes (x) & 0xFF, (x >> 8) & 0xFF, (x >> 16) & 0xFF, (x >> 24) & 0xFF
LeBytes(x) == <<x.lo % W8, x.lo \div W8, x.hi % W8, x.hi \div W8>>

-----------------------------------------------------------------------------
(* The packet transport (dc_usbhid_read, dc_usbhid_write).                 *)

PACKET_SIZE == 64

Zeros(n) == [i \in 1..n |-> 0]

\* a 64-byte packet: length byte, body, zero padding
MkPacket(L, body) == <<L>> \o body \o Zeros(PACKET_SIZE - 1 - Len(body))

Ramp(n, seed) == [i \in 1..n |-> (seed + i) % W8]

\* packets a device may send in answer to a direct transfer
TransferPackets ==
    << MkPacket(0, Ramp(2, 0)),
       MkPacket(1, Ramp(1, 16)),
       MkPacket(2, Ramp(2, 32)),
       MkPacket(5, Ramp(5, 48)),
       MkPacket(PACKET_SIZE - 1, Ramp(PACKET_SIZE - 1, 64)),
       MkPacket(PACKET_SIZE, Ramp(PACKET_SIZE - 1, 80)),
       MkPacket(W8 - 1, Ramp(PACKET_SIZE - 1, 96)) >>

\* 32-bit words a device may report during a dump
DeviceWords ==
    { Zero32, FromNat(1), FromNat(2), FromNat(5), FromNat(6),
      U32(W16 \div 2, 0), U32(W16 \div 2, 4),
      U32(W16 - 1, W16 - 4), U32(W16 - 1, W16 - 1), FromNat(3),
      FromNat(12), FromNat(16), array_uint32_le(<<165, 165, 90, 90>>) }

DeviceWordSeq == <<Zero32, FromNat(1), FromNat(2), FromNat(5), FromNat(6),
                   U32(W16 \div 2, 0), U32(W16 \div 2, 4),
                   U32(W16 - 1, W16 - 4), U32(W16 - 1, W16 - 1), FromNat(3),
                   FromNat(12), FromNat(16), array_uint32_le(<<165, 165, 90, 90>>)>>

\* packets a device may send during a dump
DumpPackets ==
    [i \in 1..Len(DeviceWordSeq) |-> MkPacket(4, LeBytes(DeviceWordSeq[i]))]
    \o << MkPacket(0, <<>>),
          MkPacket(2, <<1, 0>>),
          MkPacket(PACKET_SIZE, <<>>) >>

\* packets a device may send in answer to the model, serial and clock commands
ProbePackets ==
    << MkPacket(4, LeBytes(FromNat(5))),
       MkPacket(0, <<>>),
       MkPacket(PACKET_SIZE, <<>>) >>

\* the packets explored at the current position
PacketTable ==
    IF caller = "transfer" THEN TransferPackets
    ELSE IF stage <= 3 THEN ProbePackets
    ELSE DumpPackets

SUCCESS == "DC_STATUS_SUCCESS"
INVALIDARGS == "DC_STATUS_INVALIDARGS"
NOMEMORY == "DC_STATUS_NOMEMORY"
IOERR == "DC_STATUS_IO"
TIMEOUT == "DC_STATUS_TIMEOUT"
PROTOCOL == "DC_STATUS_PROTOCOL"
DATAFORMAT == "DC_STATUS_DATAFORMAT"
NONE == "none"

\* results of dc_usbhid_write
WriteStatuses == {SUCCESS, IOERR, TIMEOUT}

\* results of dc_usbhid_read: a status, a byte count and, when complete, a packet
ReadOutcomes ==
    { [rc |-> s, transferred |-> 0, pkt |-> 0] : s \in {IOERR, TIMEOUT} }
    \cup { [rc |-> SUCCESS, transferred |-> n, pkt |-> 0] : n \in {0, PACKET_SIZE - 1} }
    \cup { [rc |-> SUCCESS, transferred |-> PACKET_SIZE, pkt |-> k] :
             k \in 1..Len(PacketTable) }

-----------------------------------------------------------------------------
(* scubapro_g2_transfer and receive_data.                                  *)

\* a size check that lets a 64-byte command through
CommandTooBig_Late(csize) == csize > PACKET_SIZE

\* the size check of scubapro_g2_transfer
CommandTooBig(csize) == csize >= PACKET_SIZE

\* buf[0] = csize; memcpy (buf + 1, command, csize)
Frame(cmd) == <<Len(cmd) % W8>> \o cmd

\* if (len > size) len = size
ClampLen(len, sz) == IF len > sz THEN sz ELSE len

\* the caller's side of a call of scubapro_g2_transfer
CallTransfer(cmd, asz) ==
    /\ pc' = "transfer"
    /\ command' = cmd
    /\ asize' = asz
    /\ io' = <<>>
    /\ frameEnd' = 0
    /\ rcaller' = "transfer"
    /\ rsize' = 0
    /\ dst' = <<>>
    /\ cap' = asz
    /\ overrun' = FALSE
    /\ rlog' = <<>>
    /\ rret' = 0
    /\ tstatus' = NONE

\* scubapro_g2_transfer up to the call of receive_data
scubapro_g2_transfer ==
    /\ pc = "transfer"
    /\ LET csize == Len(command) IN
       IF CommandTooBig(csize)
       THEN /\ tstatus' = INVALIDARGS
            /\ pc' = "returned"
            /\ UNCHANGED <<frameEnd, sent, io, rsize>>
       ELSE \E ws \in WriteStatuses :
            /\ frameEnd' = csize + 1
            /\ sent' = Append(sent, Frame(command))
            /\ io' = Append(io, "w")
            /\ IF ws # SUCCESS
               THEN /\ tstatus' = ws
                    /\ pc' = "returned"
                    /\ UNCHANGED rsize
               ELSE /\ pc' = "receive"
                    /\ rsize' = ToInt(asize)
                    /\ UNCHANGED tstatus
    /\ UNCHANGED <<caller, command, asize, rcaller, dst, cap, overrun, rlog, rret>>
    /\ UNCHANGED <<devVars, dumpVars, extVars, rstatus>>

\* the log entry of a read: complete, failed or short
ReadTag(r) ==
    IF r.rc # SUCCESS THEN "r_fail"
    ELSE IF r.transferred # PACKET_SIZE THEN "r_short"
    ELSE "r"

NReads == Cardinality({i \in DOMAIN io : io[i] # "w"})

\* one iteration of the loop of receive_data
receive_data ==
    /\ pc = "receive"
    /\ rsize # 0
    /\ NReads < MaxReads
    /\ \E r \in ReadOutcomes :
         /\ io' = Append(io, ReadTag(r))
         /\ IF r.rc # SUCCESS \/ r.transferred # PACKET_SIZE
            THEN /\ rret' = -1
                 /\ pc' = "received"
                 /\ UNCHANGED <<rsize, dst, overrun, rlog>>
            ELSE LET buf == PacketTable[r.pkt]
                     len == buf[1]
                     n == ClampLen(len, rsize)
                 IN  /\ rlog' = Append(rlog, r.pkt)
                     /\ IF len >= PACKET_SIZE
                        THEN /\ rret' = -1
                             /\ pc' = "received"
                             /\ UNCHANGED <<rsize, dst, overrun>>
                        ELSE IF n >= 0
                        THEN \* memcpy (buffer, buf + 1, len)
                             /\ dst' = dst \o SubSeq(buf, 2, n + 1)
                             /\ overrun' = (overrun \/ Lt32(cap, FromNat(Len(dst) + n)))
                             /\ rsize' = rsize - n
                             /\ UNCHANGED <<pc, rret>>
                        ELSE \* len is negative: memcpy is given (size_t) len bytes to copy,
                             \* which runs past both buffers.  Undefined behaviour: the
                             \* process dies in memcpy, or the copy returns and the loop
                             \* goes on with size -= len.
                             /\ overrun' = TRUE
                             /\ \/ /\ pc' = "crashed"
                                   /\ UNCHANGED <<rsize, dst, rret>>
                                \/ /\ rsize' = rsize - n
                                   /\ UNCHANGED <<pc, dst, rret>>
    /\ UNCHANGED <<caller, command, asize, frameEnd, sent, rcaller, cap, tstatus>>
    /\ UNCHANGED <<devVars, dumpVars, extVars, rstatus>>

\* receive_data: the loop ends, return 0
receive_data_return ==
    /\ pc = "receive"
    /\ rsize = 0
    /\ rret' = 0
    /\ pc' = "received"
    /\ UNCHANGED <<caller, command, asize, frameEnd, sent, io, rcaller, rsize, dst, cap,
                   overrun, rlog, tstatus>>
    /\ UNCHANGED <<devVars, dumpVars, extVars, rstatus>>

\* a check of the result that takes an error for success
ReceiveFailed_Positive(ret) == ret > 0

\* if (receive_data (g2, answer, asize) < 0)
ReceiveFailed(ret) == ret < 0

\* scubapro_g2_transfer after receive_data
scubapro_g2_transfer_return ==
    /\ pc = "received"
    /\ rcaller = "transfer"
    /\ tstatus' = IF ReceiveFailed(rret) THEN IOERR ELSE SUCCESS
    /\ pc' = "returned"
    /\ UNCHANGED <<caller, command, asize, frameEnd, sent, io, rcaller, rsize, dst, cap,
                   overrun, rlog, rret>>
    /\ UNCHANGED <<devVars, dumpVars, extVars, rstatus>>

-----------------------------------------------------------------------------
(* A direct call of scubapro_g2_transfer with any command and answer size. *)

CmdSizes == (0..2) \cup {9} \cup ((PACKET_SIZE - 3)..(PACKET_SIZE + MaxOver))

AnswerSizes == { FromNat(n) : n \in 0..MaxAnswer }
               \cup { U32(W16 \div 2, 0), U32(W16 - 1, W16 - 1) }

\* the locals of transfer and dump and the logs of a call, before the call
Locals ==
    /\ stage = 0
    /\ model = <<0>>
    /\ serial = <<0, 0, 0, 0>>
    /\ command = <<>>
    /\ asize = Zero32
    /\ frameEnd = 0
    /\ sent = <<>>
    /\ io = <<>>
    /\ rcaller = "transfer"
    /\ rsize = 0
    /\ dst = <<>>
    /\ cap = Zero32
    /\ overrun = FALSE
    /\ rlog = <<>>
    /\ rret = 0
    /\ tstatus = NONE
    /\ length = Zero32
    /\ total = Zero32
    /\ bufsize = Zero32
    /\ progress = [current |-> Zero32, maximum |-> Zero32]
    /\ events = <<>>
    /\ xlog = <<>>

\* the same, on return to the application
ResetLocals ==
    /\ stage' = 0
    /\ model' = <<0>>
    /\ serial' = <<0, 0, 0, 0>>
    /\ command' = <<>>
    /\ asize' = Zero32
    /\ frameEnd' = 0
    /\ sent' = <<>>
    /\ io' = <<>>
    /\ rcaller' = "transfer"
    /\ rsize' = 0
    /\ dst' = <<>>
    /\ cap' = Zero32
    /\ overrun' = FALSE
    /\ rlog' = <<>>
    /\ rret' = 0
    /\ tstatus' = NONE
    /\ length' = Zero32
    /\ total' = Zero32
    /\ bufsize' = Zero32
    /\ progress' = [current |-> Zero32, maximum |-> Zero32]
    /\ events' = <<>>
    /\ xlog' = <<>>

InitCommon ==
    /\ pc = "idle"
    /\ caller = NONE
    /\ timestamp = Zero32
    /\ devtime = Zero32
    /\ systime = -1
    /\ fparg = <<>>
    /\ lastfp = <<>>
    /\ ndumps = 0
    /\ rstatus = NONE
    /\ Locals
    /\ data = <<>>
    /\ size = 0
    /\ previous = 0
    /\ current = 0
    /\ callback = FALSE
    /\ markers = <<>>
    /\ yielded = <<>>
    /\ oobread = FALSE
    /\ dumprc = NONE
    /\ iterations = 0

TransferBegin ==
    /\ pc = "idle"
    /\ caller' = "transfer"
    /\ \E csize \in CmdSizes, asz \in AnswerSizes :
         CallTransfer(Ramp(csize, 0), asz)
    /\ sent' = <<>>
    /\ UNCHANGED <<devVars, dumpVars, extVars, rstatus>>

TransferEnd ==
    /\ pc = "returned"
    /\ caller = "transfer"
    /\ rstatus' = tstatus
    /\ pc' = "done"
    /\ UNCHANGED <<caller, xferVars, devVars, dumpVars, extVars>>

NextTransfer ==
    \/ TransferBegin
    \/ scubapro_g2_transfer
    \/ receive_data
    \/ receive_data_return
    \/ scubapro_g2_transfer_return
    \/ TransferEnd

SpecTransfer == InitCommon /\ [][NextTransfer]_vars

-----------------------------------------------------------------------------
(* The session: scubapro_g2_device_set_fingerprint, scubapro_g2_device_dump. *)

\* dumps explored per session
MaxDumps == 1

\* fingerprints a caller may pass
Fingerprints ==
    { <<>>, <<1, 2, 3>>, <<120, 86, 52, 18>>, <<4, 3, 2, 129>>, <<1, 2, 3, 4, 5>> }

\* a check that refuses only the short fingerprints
FingerprintSizeBad_ShortOnly(n) == n # 0 /\ n < 4

\* if (size && size != 4)
FingerprintSizeBad(n) == n # 0 /\ n # 4

scubapro_g2_device_set_fingerprint ==
    /\ pc = "idle"
    /\ caller' = "set_fingerprint"
    /\ \E d \in Fingerprints :
         /\ fparg' = d
         /\ IF FingerprintSizeBad(Len(d))
            THEN /\ rstatus' = INVALIDARGS
                 /\ UNCHANGED <<timestamp, lastfp>>
            ELSE /\ timestamp' = IF Len(d) # 0 THEN array_uint32_le(d) ELSE Zero32
                 /\ rstatus' = SUCCESS
                 /\ lastfp' = d
    /\ UNCHANGED <<pc, devtime, systime, ndumps, xferVars, dumpVars, extVars>>

\* EVENT_PROGRESS_INITIALIZER: {0, UINT_MAX}
EVENT_PROGRESS_INITIALIZER == [current |-> Zero32, maximum |-> U32(W16 - 1, W16 - 1)]

ProgressEvent(p) == [type |-> "progress", current |-> p.current, maximum |-> p.maximum]

\* the value of dc_datetime_now ()
Now == 1000

\* a check that lets a timeout through
TransferFailed_OnlyIo(rc) == rc = IOERR

\* if (rc != DC_STATUS_SUCCESS) return rc
TransferFailed(rc) == rc # SUCCESS

\* a maximum that leaves out the four bytes of the handshake
ProgressMaximum_NoHandshake(len) == Add32(FromNat(4 + 9), len)

\* progress.maximum = 4 + 9 + (length ? length + 4 : 0)
ProgressMaximum(len) ==
    Add32(FromNat(4 + 9), IF len # Zero32 THEN Add32(len, FromNat(4)) ELSE Zero32)

\* a dump that goes on to the bulk stage whatever the length
DumpIsEmpty_Never(len) == FALSE

\* if (length == 0) return DC_STATUS_SUCCESS
DumpIsEmpty(len) == len = Zero32

\* a check of total against length alone
UnexpectedSize_NoHeader(tot, len) == tot # len

\* if (total != length + 4)
UnexpectedSize(tot, len) == tot # Add32(len, FromNat(4))

\* a template with the timestamp most significant byte first
CommandTemplate_BigEndian(opcode, ts) ==
    <<opcode, ts.hi \div W8, ts.hi % W8, ts.lo \div W8, ts.lo % W8, 16, 39, 0, 0>>

\* the command template, with its opcode
CommandTemplate(opcode, ts) == <<opcode>> \o LeBytes(ts) \o <<16, 39, 0, 0>>

InDump == caller \in {"dump", "foreach"}

\* return rc from the entry point
Return(rc) ==
    /\ rstatus' = rc
    /\ pc' = "done"
    /\ UNCHANGED xferVars

\* sizes of the buffer the caller hands to dump
BufferSizes == {Zero32, FromNat(7)}

\* scubapro_g2_device_dump up to the first transfer
DumpBegin ==
    /\ pc = "idle"
    /\ ndumps < MaxDumps
    /\ ndumps' = ndumps + 1
    /\ caller' = "dump"
    /\ model' = <<0>>
    /\ serial' = <<0, 0, 0, 0>>
    /\ length' = Zero32
    /\ total' = Zero32
    /\ xlog' = <<>>
    /\ \E cleared \in BOOLEAN, prior \in BufferSizes :
         IF ~cleared
         THEN /\ rstatus' = NOMEMORY
              /\ pc' = "done"
              /\ sent' = <<>>
              /\ io' = <<>>
              /\ events' = <<>>
              /\ stage' = 0
              /\ bufsize' = prior
              /\ UNCHANGED <<command, asize, frameEnd, rcaller, rsize, dst, cap, overrun,
                             rlog, rret, tstatus, progress>>
         ELSE /\ bufsize' = Zero32
              /\ progress' = EVENT_PROGRESS_INITIALIZER
              /\ events' = <<ProgressEvent(EVENT_PROGRESS_INITIALIZER)>>
              /\ stage' = 1
              /\ sent' = <<>>
              /\ rstatus' = NONE
              /\ CallTransfer(<<16>>, FromNat(1))
    /\ fparg' = <<>>
    /\ UNCHANGED <<timestamp, devtime, systime, lastfp, extVars>>

\* after the transfer of cmd_model
DumpModel ==
    /\ xlog' = Append(xlog, tstatus)
    /\ pc = "returned" /\ InDump /\ stage = 1
    /\ IF TransferFailed(tstatus)
       THEN /\ Return(tstatus)
            /\ UNCHANGED <<stage, model>>
       ELSE /\ model' = dst
            /\ stage' = 2
            /\ CallTransfer(<<20>>, FromNat(4))
            /\ UNCHANGED <<sent, rstatus>>
    /\ UNCHANGED <<caller, devVars, serial, length, total, bufsize, progress, events, extVars>>

\* after the transfer of cmd_serial
DumpSerial ==
    /\ xlog' = Append(xlog, tstatus)
    /\ pc = "returned" /\ InDump /\ stage = 2
    /\ IF TransferFailed(tstatus)
       THEN /\ Return(tstatus)
            /\ UNCHANGED <<stage, serial>>
       ELSE /\ serial' = dst
            /\ stage' = 3
            /\ CallTransfer(<<26>>, FromNat(4))
            /\ UNCHANGED <<sent, rstatus>>
    /\ UNCHANGED <<caller, devVars, model, length, total, bufsize, progress, events, extVars>>

\* after the transfer of cmd_devtime: calibration, events, length negotiation
DumpClock ==
    /\ xlog' = Append(xlog, tstatus)
    /\ pc = "returned" /\ InDump /\ stage = 3
    /\ IF TransferFailed(tstatus)
       THEN /\ Return(tstatus)
            /\ UNCHANGED <<stage, systime, devtime, progress, events>>
       ELSE LET p == [progress EXCEPT !.current = Add32(@, FromNat(9))]
                dt == array_uint32_le(dst)
            IN  /\ systime' = Now
                /\ devtime' = dt
                /\ progress' = p
                /\ events' = events \o
                     << ProgressEvent(p),
                        [type |-> "clock", systime |-> Now, devtime |-> dt],
                        [type |-> "devinfo", model |-> model[1], firmware |-> 0,
                         serial |-> array_uint32_le(serial)] >>
                /\ stage' = 4
                /\ CallTransfer(CommandTemplate(198, timestamp), FromNat(4))
                /\ UNCHANGED <<sent, rstatus>>
    /\ UNCHANGED <<caller, timestamp, fparg, lastfp, ndumps, model, serial, length, total, bufsize,
                   extVars>>

\* after the transfer of the 0xC6 command: length, progress, resize, handshake
DumpLength ==
    /\ xlog' = Append(xlog, tstatus)
    /\ pc = "returned" /\ InDump /\ stage = 4
    /\ IF TransferFailed(tstatus)
       THEN /\ Return(tstatus)
            /\ UNCHANGED <<stage, length, bufsize, progress, events>>
       ELSE LET len == array_uint32_le(dst)
                p == [current |-> Add32(progress.current, FromNat(4)),
                      maximum |-> ProgressMaximum(len)]
            IN  /\ length' = len
                /\ progress' = p
                /\ events' = Append(events, ProgressEvent(p))
                /\ IF DumpIsEmpty(len)
                   THEN /\ Return(SUCCESS)
                        /\ UNCHANGED <<stage, bufsize>>
                   ELSE \E resized \in BOOLEAN :
                        IF ~resized
                        THEN /\ Return(NOMEMORY)
                             /\ UNCHANGED <<stage, bufsize>>
                        ELSE /\ bufsize' = len
                             /\ stage' = 5
                             /\ CallTransfer([command EXCEPT ![1] = 196], FromNat(4))
                             /\ UNCHANGED <<sent, rstatus>>
    /\ UNCHANGED <<caller, devVars, model, serial, total, extVars>>

\* after the transfer of the 0xC4 command: total, progress, start of the bulk read
DumpHandshake ==
    /\ xlog' = Append(xlog, tstatus)
    /\ pc = "returned" /\ InDump /\ stage = 5
    /\ IF TransferFailed(tstatus)
       THEN /\ Return(tstatus)
            /\ UNCHANGED <<stage, total, progress, events>>
       ELSE LET tot == array_uint32_le(dst)
                p == [progress EXCEPT !.current = Add32(@, FromNat(4))]
            IN  /\ total' = tot
                /\ progress' = p
                /\ events' = Append(events, ProgressEvent(p))
                /\ IF UnexpectedSize(tot, length)
                   THEN /\ Return(PROTOCOL)
                        /\ UNCHANGED stage
                   ELSE \* receive_data (device, data, length)
                        /\ stage' = 6
                        /\ pc' = "receive"
                        /\ rcaller' = "dump"
                        /\ rsize' = ToInt(length)
                        /\ dst' = <<>>
                        /\ cap' = bufsize
                        /\ io' = <<>>
                        /\ rlog' = <<>>
                        /\ rret' = 0
                        /\ overrun' = FALSE
                        /\ UNCHANGED <<command, asize, frameEnd, sent, tstatus, rstatus>>
    /\ UNCHANGED <<caller, devVars, model, serial, length, bufsize, extVars>>

\* after the bulk receive_data
DumpBulk ==
    /\ pc = "received" /\ InDump /\ rcaller = "dump"
    /\ IF rret # 0
       THEN /\ Return(IOERR)
            /\ UNCHANGED <<progress, events>>
       ELSE LET p == [progress EXCEPT !.current = Add32(@, length)]
            IN  /\ progress' = p
                /\ events' = Append(events, ProgressEvent(p))
                /\ Return(SUCCESS)
    /\ UNCHANGED <<caller, devVars, stage, model, serial, length, total, bufsize, xlog,
                   extVars>>

\* the entry point has returned to the application
DumpEnd ==
    /\ pc = "done" /\ caller = "dump"
    /\ pc' = "idle"
    /\ caller' = NONE
    /\ rstatus' = NONE
    /\ ResetLocals
    /\ UNCHANGED <<devVars, extVars>>

NextSession ==
    \/ scubapro_g2_device_set_fingerprint
    \/ DumpBegin
    \/ scubapro_g2_transfer
    \/ receive_data
    \/ receive_data_return
    \/ scubapro_g2_transfer_return
    \/ DumpModel
    \/ DumpSerial
    \/ DumpClock
    \/ DumpLength
    \/ DumpHandshake
    \/ DumpBulk
    \/ DumpEnd

SpecSession == InitCommon /\ [][NextSession]_vars

-----------------------------------------------------------------------------
(* scubapro_g2_extract_dives.                                              *)

\* chunks a scanned buffer is made of
MaxChunks == 4

\* const unsigned char header[4] = {0xa5, 0xa5, 0x5a, 0x5a}
header == <<165, 165, 90, 90>>

\* values of the length field explored
ExtractLens == { Zero32, FromNat(12), FromNat(13), U32(W16 - 1, W16 - 1) }

Chunks ==
    { <<0>>, <<0, 0, 0, 0>>, header } \cup { header \o LeBytes(v) : v \in ExtractLens }

RECURSIVE BuffersUpTo(_)
BuffersUpTo(n) ==
    IF n = 0 THEN { <<>> }
    ELSE LET B == BuffersUpTo(n - 1) IN B \cup { b \o c : b \in B, c \in Chunks }

ExtractBuffers == BuffersUpTo(MaxChunks)

\* what a read past the end of the buffer may find in the next three bytes
OobFills == { <<0, 0, 0>>, <<255, 255, 255>> }

\* data[i] (from 0), with `fill` standing for the bytes past the end
ByteAt(i, fill) == IF i < size THEN data[i + 1] ELSE fill[i - size + 1]

\* memcmp (data + at, header, sizeof (header)) == 0
IsMarker(at) == \A k \in 0..3 : ByteAt(at + k, <<>>) = header[k + 1]

\* a step that puts the cursor back where the iteration found it
StepBack_Stay(n) == n + 1

\* (size >= 4 ? size - 4 : 0)
StepBack(n) == IF n >= 4 THEN n - 4 ELSE 0

\* a check that also refuses a record ending exactly at `previous`
Overflows_Inclusive(cur, len, prev) == Le32(FromNat(prev), Add32(FromNat(cur), len))

\* if (current + len > previous)
Overflows(cur, len, prev) == Lt32(FromNat(prev), Add32(FromNat(cur), len))

\* a scan that goes on whatever the callback returns
StopRequested_Never(cb, continue) == FALSE

\* if (callback && !callback (...)) return DC_STATUS_SUCCESS
StopRequested(cb, continue) == cb /\ ~continue

\* the device argument: NULL, a G2 device or a device of another family
DeviceArgs == {"null", "g2", "other"}

\* scubapro_g2_extract_dives up to the loop
ExtractBegin ==
    /\ pc = "idle"
    /\ caller' = "extract"
    /\ \E d \in ExtractBuffers, cb \in BOOLEAN, abstract \in DeviceArgs :
         /\ data' = d
         /\ size' = Len(d)
         /\ callback' = cb
         /\ markers' = <<>>
         /\ yielded' = <<>>
         /\ oobread' = FALSE
         /\ iterations' = 0
         /\ IF abstract = "other"
            THEN /\ rstatus' = INVALIDARGS
                 /\ pc' = "done"
                 /\ UNCHANGED <<previous, current>>
            ELSE /\ previous' = Len(d)
                 /\ current' = StepBack(Len(d))
                 /\ rstatus' = NONE
                 /\ pc' = "scan"
    /\ UNCHANGED <<dumprc, devVars, xferVars, dumpVars>>

\* one iteration of the loop of scubapro_g2_extract_dives
ExtractStep ==
    /\ pc = "scan"
    /\ current > 0
    /\ iterations' = iterations + 1
    /\ LET cur == current - 1 IN
       IF ~IsMarker(cur)
       THEN /\ current' = cur
            /\ UNCHANGED <<pc, rstatus, previous, markers, yielded, oobread>>
       ELSE \E fill \in OobFills :
            LET len == array_uint32_le([k \in 1..4 |-> ByteAt(cur + 3 + k, fill)]) IN
            /\ oobread' = (oobread \/ cur + 8 > size)
            /\ markers' = Append(markers, [start |-> cur, len |-> len, previous |-> previous])
            /\ IF Overflows(cur, len, previous)
               THEN /\ rstatus' = DATAFORMAT
                    /\ pc' = "done"
                    /\ current' = cur
                    /\ UNCHANGED <<previous, yielded>>
               ELSE \E continue \in (IF callback THEN BOOLEAN ELSE {TRUE}) :
                    /\ yielded' = IF callback
                                  THEN Append(yielded, [start |-> cur, len |-> len,
                                                        previous |-> previous,
                                                        fingerprint |-> cur + 8,
                                                        continue |-> continue])
                                  ELSE yielded
                    /\ IF StopRequested(callback, continue)
                       THEN /\ rstatus' = SUCCESS
                            /\ pc' = "done"
                            /\ current' = cur
                            /\ UNCHANGED previous
                       ELSE /\ previous' = cur
                            /\ current' = StepBack(cur)
                            /\ UNCHANGED <<pc, rstatus>>
    /\ UNCHANGED <<caller, data, size, callback, dumprc, devVars, xferVars, dumpVars>>

\* the loop ends: return DC_STATUS_SUCCESS
ExtractReturn ==
    /\ pc = "scan"
    /\ current = 0
    /\ rstatus' = SUCCESS
    /\ pc' = "done"
    /\ UNCHANGED <<caller, extVars, devVars, xferVars, dumpVars>>

NextExtract ==
    \/ ExtractBegin
    \/ ExtractStep
    \/ ExtractReturn

SpecExtract == InitCommon /\ [][NextExtract]_vars

-----------------------------------------------------------------------------
(* scubapro_g2_device_foreach.                                             *)

\* a foreach that extracts whatever its dump returned
ForeachDumpFailed_Never(rc) == FALSE

\* if (rc != DC_STATUS_SUCCESS) { dc_buffer_free (buffer); return rc; }
ForeachDumpFailed(rc) == rc # SUCCESS

\* the call has got past dc_buffer_new and its dump has not returned yet
ForeachInDump == caller = "foreach" /\ dumprc = NONE /\ stage # 0

\* dc_buffer_get_data (buffer) after the dump: the bytes of the bulk read, or
\* nothing when the buffer was only cleared
BufferData == IF rcaller = "dump" THEN dst ELSE <<>>

\* scubapro_g2_device_foreach up to the first transfer of its dump
ForeachBegin ==
    /\ pc = "idle"
    /\ ndumps < MaxDumps
    /\ ndumps' = ndumps + 1
    /\ caller' = "foreach"
    /\ model' = <<0>>
    /\ serial' = <<0, 0, 0, 0>>
    /\ length' = Zero32
    /\ total' = Zero32
    /\ xlog' = <<>>
    /\ bufsize' = Zero32
    /\ sent' = <<>>
    /\ \E allocated \in BOOLEAN :
         IF ~allocated
         THEN /\ rstatus' = NOMEMORY
              /\ pc' = "done"
              /\ io' = <<>>
              /\ events' = <<>>
              /\ stage' = 0
              /\ UNCHANGED <<command, asize, frameEnd, rcaller, rsize, dst, cap, overrun,
                             rlog, rret, tstatus, progress>>
         ELSE /\ progress' = EVENT_PROGRESS_INITIALIZER
              /\ events' = <<ProgressEvent(EVENT_PROGRESS_INITIALIZER)>>
              /\ stage' = 1
              /\ rstatus' = NONE
              /\ CallTransfer(<<16>>, FromNat(1))
    /\ fparg' = <<>>
    /\ UNCHANGED <<timestamp, devtime, systime, lastfp, extVars>>

\* the dump has returned: foreach returns its error, or extracts the buffer (a
\* buffer that a copy has overrun, of 2^31 bytes or more, is not scanned here)
ForeachDumped ==
    /\ pc = "done"
    /\ ForeachInDump
    /\ dumprc' = rstatus
    /\ IF ForeachDumpFailed(rstatus)
       THEN UNCHANGED <<pc, rstatus, data, size, previous, current, callback, markers,
                        yielded, oobread, iterations>>
       ELSE /\ ~overrun
            /\ \E cb \in BOOLEAN : callback' = cb
            /\ data' = BufferData
            /\ size' = ToInt(bufsize)
            /\ markers' = <<>>
            /\ yielded' = <<>>
            /\ oobread' = FALSE
            /\ iterations' = 0
            /\ previous' = ToInt(bufsize)
            /\ current' = StepBack(ToInt(bufsize))
            /\ rstatus' = NONE
            /\ pc' = "scan"
    /\ UNCHANGED <<caller, devVars, xferVars, dumpVars>>

\* foreach has returned to the application
ForeachReturned == caller = "foreach" /\ pc = "done" /\ ~ForeachInDump

ForeachEnd ==
    /\ ForeachReturned
    /\ pc' = "idle"
    /\ caller' = NONE
    /\ rstatus' = NONE
    /\ ResetLocals
    /\ data' = <<>>
    /\ size' = 0
    /\ previous' = 0
    /\ current' = 0
    /\ callback' = FALSE
    /\ markers' = <<>>
    /\ yielded' = <<>>
    /\ oobread' = FALSE
    /\ dumprc' = NONE
    /\ iterations' = 0
    /\ UNCHANGED devVars

NextForeach ==
    \/ ForeachBegin
    \/ scubapro_g2_transfer
    \/ receive_data
    \/ receive_data_return
    \/ scubapro_g2_transfer_return
    \/ DumpModel
    \/ DumpSerial
    \/ DumpClock
    \/ DumpLength
    \/ DumpHandshake
    \/ DumpBulk
    \/ ForeachDumped
    \/ ExtractStep
    \/ ExtractReturn
    \/ ForeachEnd

SpecForeach == InitCommon /\ [][NextForeach]_vars

-----------------------------------------------------------------------------
(* Properties of the framed transfer engine.                               *)

\* the transfer in progress has got past its entry (size check and write)
Entered == caller = "transfer" /\ pc \notin {"idle", "transfer"}

\* the bytes the receive loop has to deliver for the packets `log`, with `rem`
\* bytes of space left: the first min(L, rem) payload bytes of each, in order
RECURSIVE Gather(_, _)
Gather(log, rem) ==
    IF log = <<>> THEN <<>>
    ELSE LET p == TransferPackets[Head(log)]
             n == Min(p[1], rem)
         IN  [i \in 1..n |-> p[i + 1]] \o Gather(Tail(log), rem - n)

\* C1 as stated: every command of 63 bytes or more is refused with
\* DC_STATUS_INVALIDARGS before any transport write or read, and framing never
\* writes outside the 64-byte packet buffer.
C1_RefusedFrom63 ==
    /\ frameEnd <= PACKET_SIZE
    /\ (Entered /\ Len(command) >= PACKET_SIZE - 1)
          => (tstatus = INVALIDARGS /\ io = <<>> /\ sent = <<>>)

\* C1 amended: every command of 64 bytes or more (csize >= PACKET_SIZE) is
\* refused with DC_STATUS_INVALIDARGS before any transport write or read; a
\* 63-byte command is accepted and framed as a full 64-byte packet; framing
\* never writes outside the 64-byte packet buffer.
C1_RefusedFrom64 ==
    /\ frameEnd <= PACKET_SIZE
    /\ (Entered /\ Len(command) >= PACKET_SIZE)
          => (pc \in {"returned", "done"} /\ tstatus = INVALIDARGS
              /\ io = <<>> /\ sent = <<>> /\ frameEnd = 0)
    /\ (Entered /\ Len(command) = PACKET_SIZE - 1)
          => (tstatus # INVALIDARGS /\ io # <<>> /\ io[1] = "w"
              /\ sent = <<Frame(command)>> /\ Len(sent[1]) = PACKET_SIZE)

\* a 64-byte command has been refused
C1_Witness ==
    /\ caller = "transfer" /\ pc = "done"
    /\ Len(command) = PACKET_SIZE
    /\ rstatus = INVALIDARGS

\* C2 as stated: a successful transfer of a command shorter than 63 bytes, for
\* any answer size, has made exactly one write, of [len] ++ command, before its
\* reads, and leaves exactly asize bytes in the answer: the first
\* min(L, remaining) payload bytes of each packet in order, none past the end.
C2_SuccessfulTransfer ==
    (caller = "transfer" /\ pc = "done" /\ rstatus = SUCCESS
     /\ Len(command) < PACKET_SIZE - 1)
      => /\ sent = <<Frame(command)>>
         /\ io = <<"w">> \o [i \in 1..Len(rlog) |-> "r"]
         /\ FromNat(Len(dst)) = asize
         /\ dst = Gather(rlog, Len(dst))
         /\ ~overrun

\* the same for the answer sizes that fit an int (asize <= INT_MAX), where
\* receive_data's signed size is the size asked for
C2_AnswerFitsInt ==
    (caller = "transfer" /\ pc = "done" /\ rstatus = SUCCESS
     /\ Len(command) < PACKET_SIZE - 1 /\ ToInt(asize) >= 0)
      => /\ sent = <<Frame(command)>>
         /\ io = <<"w">> \o [i \in 1..Len(rlog) |-> "r"]
         /\ FromNat(Len(dst)) = asize
         /\ dst = Gather(rlog, Len(dst))
         /\ ~overrun

-----------------------------------------------------------------------------
(* Properties of the session.                                              *)

\* the i-th exchange of the dump in progress has returned success
Answered(i) == InDump /\ Len(xlog) >= i /\ xlog[i] = SUCCESS

\* the bulk receive_data of the dump in progress has been called
BulkStarted == InDump /\ rcaller = "dump"

\* the opcodes of the packets written, in order
Opcodes == [i \in 1..Len(sent) |-> sent[i][2]]

IsPrefix(a, b) == Len(a) <= Len(b) /\ a = SubSeq(b, 1, Len(a))

ProgressEvents == SelectSeq(events, LAMBDA e : e.type = "progress")

\* C3 as stated: in the bulk stage the buffer has size length, for every 32-bit
\* length, and every byte receive_data writes lands inside it.
C3_BulkWithinBuffer ==
    BulkStarted
      => /\ bufsize = length
         /\ cap = length
         /\ ~overrun
         /\ Le32(FromNat(Len(dst)), length)

\* the same for the lengths that fit an int (length <= INT_MAX)
C3_LengthFitsInt ==
    (BulkStarted /\ ToInt(length) >= 0)
      => /\ bufsize = length
         /\ cap = length
         /\ ~overrun
         /\ Le32(FromNat(Len(dst)), length)

\* C6: the commands of a dump reach the transport in the order 0x10, 0x14,
\* 0x1A, 0xC6, 0xC4; a command is sent only after every earlier exchange
\* succeeded; a failed exchange is the last one: dump returns its status, and
\* no later command is written and no bulk read is made.
C6_CommandOrder ==
    InDump
      => /\ IsPrefix(Opcodes, <<16, 20, 26, 198, 196>>)
         /\ \A i \in 1..Len(sent) : Len(sent[i]) = (IF i <= 3 THEN 2 ELSE 10)
         /\ Len(sent) <= Len(xlog) + 1
         /\ \A i \in 1..Len(xlog) :
              /\ i < Len(sent) => xlog[i] = SUCCESS
              /\ xlog[i] # SUCCESS
                   => /\ i = Len(xlog)
                      /\ pc = "done"
                      /\ rstatus = xlog[i]
                      /\ Len(sent) <= i
                      /\ ~BulkStarted

\* the third exchange of a dump has failed after two that succeeded
C6_Witness ==
    /\ InDump /\ pc = "done"
    /\ Len(xlog) = 3 /\ xlog[3] = IOERR
    /\ rstatus = IOERR
    /\ Opcodes = <<16, 20, 26>>

\* C7: when the 0xC6 exchange answers length 0, dump returns success with an
\* empty buffer, and neither the 0xC4 command nor a bulk read reaches the
\* transport.
C7_EmptyDump ==
    (Answered(4) /\ length = Zero32)
      => /\ pc = "done"
         /\ rstatus = SUCCESS
         /\ bufsize = Zero32
         /\ Opcodes = <<16, 20, 26, 198>>
         /\ ~BulkStarted

\* a dump has negotiated length 0
C7_Witness ==
    /\ Answered(4) /\ length = Zero32
    /\ pc = "done" /\ rstatus = SUCCESS

\* C8: when the 0xC4 answer total differs from length + 4 (the unsigned 32-bit
\* sum, as the code computes it), dump returns DC_STATUS_PROTOCOL and makes no
\* bulk read; the bulk read is made only when total = length + 4.
C8_TotalChecked ==
    /\ (Answered(5) /\ total # Add32(length, FromNat(4)))
          => (pc = "done" /\ rstatus = PROTOCOL /\ ~BulkStarted)
    /\ BulkStarted => (Answered(5) /\ total = Add32(length, FromNat(4)))

\* a dump has been refused for its total
C8_Witness ==
    /\ Answered(5) /\ total # Add32(length, FromNat(4))
    /\ pc = "done" /\ rstatus = PROTOCOL

\* C9: when dump returns success, the last progress event has current =
\* maximum, and maximum = 4 + 9 + (length != 0 ? length + 4 : 0) in unsigned
\* 32-bit arithmetic, for the length negotiated.
C9_ProgressComplete ==
    (InDump /\ pc = "done" /\ rstatus = SUCCESS)
      => /\ ProgressEvents # <<>>
         /\ LET e == ProgressEvents[Len(ProgressEvents)] IN
            /\ e.current = e.maximum
            /\ e.maximum = (IF length = Zero32 THEN FromNat(13)
                            ELSE Add32(Add32(length, FromNat(4)), FromNat(13)))

\* a dump of two bytes has succeeded
C9_Witness ==
    /\ InDump /\ pc = "done" /\ rstatus = SUCCESS
    /\ length = FromNat(2) /\ Len(dst) = 2 /\ ~overrun

\* C10: set_fingerprint with size 0 sets the cursor to 0, with size 4 to the
\* little-endian value of the bytes, and with any other size returns
\* DC_STATUS_INVALIDARGS and leaves the cursor as it was; it makes no transport
\* read or write.
C10_SetFingerprint ==
    [][ (pc = "idle" /\ caller' = "set_fingerprint")
          => /\ Len(fparg') = 0 => (timestamp' = Zero32 /\ rstatus' = SUCCESS)
             /\ Len(fparg') = 4
                  => /\ timestamp' = U32(fparg'[4] * W8 + fparg'[3],
                                         fparg'[2] * W8 + fparg'[1])
                     /\ rstatus' = SUCCESS
             /\ Len(fparg') \notin {0, 4}
                  => (timestamp' = timestamp /\ rstatus' = INVALIDARGS)
             /\ UNCHANGED <<sent, io>> ]_vars

\* a 3-byte fingerprint has been refused and the cursor set before is kept
C10_Witness ==
    /\ caller = "set_fingerprint"
    /\ Len(fparg) = 3
    /\ rstatus = INVALIDARGS
    /\ timestamp = U32(4660, 22136)

-----------------------------------------------------------------------------
(* Properties of the extraction.                                           *)

\* start + len > bound, in exact integer arithmetic
ExceedsExact(start, len, bound) ==
    Carry32(FromNat(start), len) \/ Lt32(FromNat(bound), Add32(FromNat(start), len))

\* C4 as stated: a marker whose length field makes current + len exceed
\* previous ends the extraction with DC_STATUS_DATAFORMAT, with no callback for
\* it or for a later marker, for every 32-bit len; every record passed to the
\* callback satisfies current + len <= previous <= size in exact arithmetic.
C4_NoOverrunYielded ==
    caller = "extract"
      => /\ \A i \in 1..Len(markers) :
              ExceedsExact(markers[i].start, markers[i].len, markers[i].previous)
                => /\ i = Len(markers)
                   /\ pc = "done"
                   /\ rstatus = DATAFORMAT
                   /\ \A j \in 1..Len(yielded) : yielded[j].start # markers[i].start
         /\ \A j \in 1..Len(yielded) :
              /\ ~ExceedsExact(yielded[j].start, yielded[j].len, yielded[j].previous)
              /\ yielded[j].previous <= size

\* the same for the length fields whose sum with the offset fits 32 bits
C4_NoWrap ==
    (caller = "extract"
     /\ \A i \in 1..Len(markers) : ~Carry32(FromNat(markers[i].start), markers[i].len))
      => /\ \A i \in 1..Len(markers) :
              ExceedsExact(markers[i].start, markers[i].len, markers[i].previous)
                => /\ i = Len(markers)
                   /\ pc = "done"
                   /\ rstatus = DATAFORMAT
                   /\ \A j \in 1..Len(yielded) : yielded[j].start # markers[i].start
         /\ \A j \in 1..Len(yielded) :
              /\ ~ExceedsExact(yielded[j].start, yielded[j].len, yielded[j].previous)
              /\ yielded[j].previous <= size

\* C5 as stated: the records passed to the callback have strictly decreasing
\* start offsets and no two of their ranges [start, start + len) overlap.
C5_DecreasingDisjoint ==
    caller = "extract"
      => \A i \in 1..Len(yielded) : \A j \in (i + 1)..Len(yielded) :
           /\ yielded[j].start < yielded[i].start
           /\ ~(/\ yielded[i].len # Zero32
                /\ ExceedsExact(yielded[j].start, yielded[j].len, yielded[i].start))

\* the start offsets alone
C5_Decreasing ==
    caller = "extract"
      => \A i \in 1..Len(yielded) : \A j \in (i + 1)..Len(yielded) :
           yielded[j].start < yielded[i].start

\* C11: when the callback returns false on the k-th record it is given, it has
\* been invoked exactly k times, is invoked no more, and the extraction
\* returns DC_STATUS_SUCCESS.
C11_EarlyStop ==
    caller = "extract"
      => \A k \in 1..Len(yielded) :
           ~yielded[k].continue
             => /\ k = Len(yielded)
                /\ pc = "done"
                /\ rstatus = SUCCESS

\* the callback has stopped the scan at its second record
C11_Witness ==
    /\ caller = "extract" /\ pc = "done" /\ rstatus = SUCCESS
    /\ Len(yielded) = 2
    /\ yielded[1].continue /\ ~yielded[2].continue

-----------------------------------------------------------------------------
(* Failures of the receive loop.                                           *)

\* the length byte of the last complete packet received
LastLength == PacketTable[rlog[Len(rlog)]][1]

\* the call in progress ended on a packet with an impossible length byte
EndedOnImpossibleLength ==
    /\ caller \in {"transfer", "dump", "foreach"}
    /\ pc = "done"
    /\ rlog # <<>>
    /\ LastLength >= PACKET_SIZE

\* C12 as stated: when a received packet declares a payload length L >= 64,
\* the operation that was receiving fails with the protocol-violation error.
C12_ImpossibleLengthIsProtocol ==
    EndedOnImpossibleLength => rstatus = PROTOCOL

\* what the code returns then: DC_STATUS_IO
C12_ImpossibleLengthIsIo ==
    EndedOnImpossibleLength => rstatus = IOERR

\* C13: when a transport read fails or returns fewer than 64 bytes, in a
\* transfer or in the bulk read, the receive loop makes no other read and the
\* enclosing operation returns DC_STATUS_IO, never success.
C13_ReadFailureIsIo ==
    \A i \in 1..Len(io) :
      io[i] \in {"r_fail", "r_short"}
        => /\ i = Len(io)
           /\ pc \in {"received", "returned", "done"}
           /\ rret = -1
           /\ pc = "returned" => tstatus = IOERR
           /\ pc = "done" => (rstatus = IOERR /\ (~BulkStarted => tstatus = IOERR))

\* the bulk read of a dump has ended on a short read
C13_Witness ==
    /\ BulkStarted /\ pc = "done"
    /\ io # <<>> /\ io[Len(io)] = "r_short"
    /\ rstatus = IOERR

\* a transfer of a dump has ended on a failed read
C13_WitnessTransfer ==
    /\ InDump /\ ~BulkStarted /\ pc = "done"
    /\ io # <<>> /\ io[Len(io)] = "r_fail"
    /\ rstatus = IOERR

-----------------------------------------------------------------------------
(* The fingerprint in the commands of a dump.                              *)

\* the four cursor bytes the last successful set_fingerprint stands for
CursorBytes == IF lastfp = <<>> THEN <<0, 0, 0, 0>> ELSE lastfp

\* C14: in the 0xC6 and the 0xC4 command of a dump, bytes 1..4 are the
\* little-endian cursor set by the most recent successful set_fingerprint (0
\* when there was none or it had size 0), followed by 0x10 0x27 0x00 0x00;
\* the dump never changes the cursor.
C14_CursorInCommands ==
    /\ LeBytes(timestamp) = CursorBytes
    /\ InDump
         => \A k \in 4..Len(sent) :
              sent[k] = <<9, IF k = 4 THEN 198 ELSE 196>> \o CursorBytes \o <<16, 39, 0, 0>>

\* a dump has sent both commands after a 4-byte fingerprint was set
C14_Witness ==
    /\ InDump /\ Len(sent) = 5
    /\ lastfp = <<120, 86, 52, 18>>
    /\ timestamp = U32(4660, 22136)

-----------------------------------------------------------------------------
(* The bytes the extraction touches.                                       *)

\* C15: during an extraction every byte read or handed to the callback lies in
\* [0, size): the length field [current+4, current+8) of every marker match is
\* inside the buffer, and the fingerprint [current+8, current+12) of every
\* record yielded is inside the buffer and inside [current, current+len).
C15_ReadsInBounds ==
    caller = "extract"
      => /\ ~oobread
         /\ \A k \in 1..Len(markers) : markers[k].start + 8 <= size
         /\ \A k \in 1..Len(yielded) :
              /\ yielded[k].fingerprint + 4 <= size
              /\ Le32(FromNat(12), yielded[k].len)

\* what the loop does keep: the four bytes compared with the marker
C15_MarkerCompareInBounds ==
    caller = "extract" => \A k \in 1..Len(markers) : markers[k].start + 4 < size

-----------------------------------------------------------------------------
(* Extraction of well-formed buffers.                                      *)

\* the marker stands at offset i (from 0) of d
MarkerAt(d, i) == i + 4 <= Len(d) /\ SubSeq(d, i + 1, i + 4) = header

MarkerOffsets(d) == { i \in 0..(Len(d) - 1) : MarkerAt(d, i) }

\* a record at offset `at` of d: marker, then its own size (at least 12), all
\* of it inside d
RecordAt(d, at) ==
    /\ at + 12 <= Len(d)
    /\ MarkerAt(d, at)
    /\ LET L == array_uint32_le(SubSeq(d, at + 5, at + 8)) IN
       L.hi = 0 /\ L.lo >= 12 /\ at + L.lo <= Len(d)

\* the records of d from offset `at` on, oldest first, up to the first offset
\* that holds no record
RECURSIVE RecordsFrom(_, _)
RecordsFrom(d, at) ==
    IF ~RecordAt(d, at) THEN <<>>
    ELSE LET L == array_uint32_le(SubSeq(d, at + 5, at + 8)) IN
         <<[start |-> at, len |-> L]>> \o RecordsFrom(d, at + L.lo)

\* d is exactly a concatenation of records and holds no other marker
WellFormed(d) ==
    LET R == RecordsFrom(d, 0) IN
    /\ IF R = <<>> THEN d = <<>>
       ELSE R[Len(R)].start + R[Len(R)].len.lo = Len(d)
    /\ MarkerOffsets(d) = { R[k].start : k \in 1..Len(R) }

Reverse(q) == [k \in 1..Len(q) |-> q[Len(q) + 1 - k]]

\* what the callback was given, call by call
Calls == [k \in 1..Len(yielded) |-> [start |-> yielded[k].start, len |-> yielded[k].len]]

AlwaysContinue == callback /\ \A k \in 1..Len(yielded) : yielded[k].continue

\* C16: on a buffer that is exactly n >= 0 well-formed records, with a callback
\* that always continues, the extraction calls the callback once per record,
\* newest first, with the record's range and the 4 bytes at its offset 8, and
\* returns success; a buffer shorter than 4 bytes gives no call and success.
C16_WellFormedBuffer ==
    (caller = "extract" /\ rstatus # INVALIDARGS /\ AlwaysContinue)
      => /\ WellFormed(data)
           => /\ IsPrefix(Calls, Reverse(RecordsFrom(data, 0)))
              /\ \A k \in 1..Len(yielded) : yielded[k].fingerprint = yielded[k].start + 8
              /\ pc = "done" => (rstatus = SUCCESS /\ Len(yielded) = Len(RecordsFrom(data, 0)))
         /\ size < 4
           => /\ yielded = <<>>
              /\ pc = "done" => rstatus = SUCCESS

\* two records of 12 bytes were extracted, the one at offset 12 first
C16_Witness ==
    /\ caller = "extract" /\ pc = "done" /\ rstatus = SUCCESS /\ AlwaysContinue
    /\ WellFormed(data) /\ size = 24
    /\ Calls = << [start |-> 12, len |-> FromNat(12)], [start |-> 0, len |-> FromNat(12)] >>

\* a record of 13 bytes was extracted
C16_WitnessThirteen ==
    /\ caller = "extract" /\ pc = "done" /\ rstatus = SUCCESS /\ AlwaysContinue
    /\ WellFormed(data) /\ size = 13
    /\ Calls = << [start |-> 0, len |-> FromNat(13)] >>

\* a buffer of fewer than 4 bytes was extracted
C16_WitnessShort ==
    caller = "extract" /\ pc = "done" /\ rstatus = SUCCESS /\ size \in 1..3 /\ callback

-----------------------------------------------------------------------------
(* The progress events of a dump.                                          *)

\* current never goes back and never passes the maximum of its own event
ProgressOrdered ==
    \A k \in 1..Len(ProgressEvents) :
      /\ Le32(ProgressEvents[k].current, ProgressEvents[k].maximum)
      /\ k > 1 => Le32(ProgressEvents[k - 1].current, ProgressEvents[k].current)

\* C17: in every progress event of a dump, current is at least the current of
\* the event before it and at most the maximum of the same event, for every
\* 32-bit length the device can report.
C17_ProgressOrdered == InDump => ProgressOrdered

\* the same for the lengths for which 4 + 9 + length + 4 fits 32 bits
C17_NoWrap ==
    (InDump /\ Le32(length, U32(W16 - 1, W16 - 18))) => ProgressOrdered

-----------------------------------------------------------------------------
(* foreach: the dump, then the extraction.                                 *)

\* the last marker found ended the scan with the data-format error
LastMarkerOverflows ==
    /\ markers # <<>>
    /\ LET m == markers[Len(markers)] IN Overflows(m.start, m.len, m.previous)

\* what holds in every state of a foreach
ForeachOrder ==
    caller = "foreach"
      => /\ (yielded # <<>> \/ pc = "scan") => dumprc = SUCCESS
         /\ dumprc \notin {NONE, SUCCESS}
              => (pc = "done" /\ rstatus = dumprc /\ yielded = <<>>)
         /\ (ForeachReturned /\ dumprc = NONE)
              => (rstatus = NOMEMORY /\ sent = <<>> /\ yielded = <<>>)
         /\ dumprc = SUCCESS
              => /\ data = BufferData /\ FromNat(size) = length /\ Len(data) = size
                 /\ length = Zero32 => yielded = <<>>
                 /\ pc = "done"
                      => /\ rstatus \in {SUCCESS, DATAFORMAT}
                         /\ rstatus = DATAFORMAT <=> LastMarkerOverflows
                         /\ length = Zero32 => rstatus = SUCCESS
                         /\ (WellFormed(data) /\ AlwaysContinue)
                              => Calls = Reverse(RecordsFrom(data, 0))

\* what the return of the dump to foreach does
ForeachHandsOver ==
    (ForeachInDump /\ pc = "done" /\ dumprc' # NONE)
      => /\ dumprc' = rstatus
         /\ rstatus # SUCCESS => (pc' = "done" /\ rstatus' = rstatus)
         /\ rstatus = SUCCESS => (pc' = "scan" /\ yielded' = <<>>)

\* C18: foreach invokes the callback only after its dump has returned success;
\* when the dump fails foreach returns the dump's error and never invokes the
\* callback; when it succeeds foreach returns the result of extracting the
\* dumped buffer (no callback and success when the negotiated length is 0).
C18_ForeachDumpThenExtract == [](ForeachOrder) /\ [][ForeachHandsOver]_vars

\* a foreach has dumped one record of 12 bytes and handed it to the callback
C18_Witness ==
    /\ ForeachReturned /\ dumprc = SUCCESS /\ rstatus = SUCCESS
    /\ length = FromNat(12) /\ callback
    /\ Calls = << [start |-> 0, len |-> FromNat(12)] >>

\* a foreach has returned the error of its dump
C18_WitnessFailed ==
    ForeachReturned /\ dumprc = PROTOCOL /\ rstatus = PROTOCOL

\* a foreach has dumped a length of 0
C18_WitnessEmpty ==
    ForeachReturned /\ dumprc = SUCCESS /\ length = Zero32 /\ rstatus = SUCCESS /\ sent # <<>>

-----------------------------------------------------------------------------
(* The end of the receive loop.                                            *)

\* the number of bytes asked of the receive_data call in progress
Requested == IF rcaller = "dump" THEN length ELSE asize

\* receive_data has returned 0
ReceiveSucceeded == pc = "received" /\ rret = 0

\* the loop has ended with everything asked for, and not on an empty packet
ReceiveComplete ==
    /\ FromNat(Len(dst)) = Requested
    /\ ~overrun
    /\ rlog # <<>> => LastLength > 0

\* a step of the loop that receives a packet with L = 0 copies nothing and
\* stays in the loop
EmptyPacketStep ==
    (pc = "receive" /\ Len(rlog') = Len(rlog) + 1 /\ PacketTable[rlog'[Len(rlog')]][1] = 0)
      => (pc' = "receive" /\ dst' = dst /\ rsize' = rsize)

\* C19: the receive loop ends with success only when the bytes copied are as
\* many as the answer size asked for; a packet with L = 0 adds nothing and does
\* not end the loop.
C19_SuccessMeansComplete == ReceiveSucceeded => ReceiveComplete

\* the same for the sizes that fit an int, with the steps on empty packets
C19_SizeFitsInt ==
    /\ [](ReceiveSucceeded /\ ToInt(Requested) >= 0 => ReceiveComplete)
    /\ [][ToInt(Requested) >= 0 => EmptyPacketStep]_vars

-----------------------------------------------------------------------------
(* Termination of the scan.                                                *)

\* in the loop: the cursor is in 0..size, the iterations made and the cursor
\* together stay within size, and the loop can always go on or end
ScanBounded ==
    (caller = "extract" /\ pc \in {"scan", "done"})
      => /\ current \in 0..size
         /\ iterations + current <= size
         /\ iterations <= size
         /\ (pc = "scan" /\ current > 0) => ENABLED ExtractStep
         /\ (pc = "scan" /\ current = 0) => ENABLED ExtractReturn

\* every iteration lowers the cursor, and the loop is left at its test only
\* with the cursor at 0
ScanStep ==
    /\ (pc = "scan" /\ iterations' # iterations)
         => (iterations' = iterations + 1 /\ current > 0 /\ current' < current)
    /\ (pc = "scan" /\ current = 0) => (pc' = "done" /\ rstatus' = SUCCESS)
    /\ (pc = "scan" /\ pc' = "done" /\ iterations' = iterations) => current = 0

\* C20: for every buffer and every callback the scan terminates: the cursor
\* strictly decreases on every iteration, the loop exits when the cursor is 0,
\* and there are at most size iterations.
C20_ScanTerminates == [](ScanBounded) /\ [][caller = "extract" => ScanStep]_vars

\* a scan of a 24-byte buffer holding two records has ended at cursor 0
C20_Witness ==
    /\ caller = "extract" /\ pc = "done" /\ rstatus = SUCCESS
    /\ WellFormed(data) /\ size = 24 /\ current = 0 /\ Len(markers) = 2 /\ iterations = 16

====
